---- MODULE Spec2Model ----
(***************************************************************************)
(* Model of the bvh crate (dbenson24/bvh): the ray/AABB intersection       *)
(* algorithms of src/shapes/ray.rs, the C interface of src/lib.rs          *)
(* (build_bvh, query_*, add_node, remove_node) and the node array the      *)
(* interface hands back and forth.                                         *)
(*                                                                         *)
(* Arithmetic.  Coordinates are integers.  A slab distance                 *)
(* (bound - origin) * inv_direction is kept as an exact value of the       *)
(* extended reals: a fraction, +inf, -inf or NaN.  Ray::new normalises the *)
(* direction; the common positive factor |direction| is dropped from every *)
(* finite distance, which changes no comparison between two distances or   *)
(* between a distance and 0.  Rounding of f64 is not modelled.  A          *)
(* direction component 0 is +0.0, so its reciprocal is +inf.               *)
(*                                                                         *)
(* Indices are 0-based as in the source: an array is a function on 0..n-1. *)
(***************************************************************************)
EXTENDS Integers, Sequences, FiniteSets, TLC

(***************************************************************************)
(* Bounds of the model.                                                    *)
(***************************************************************************)
\* ray.rs inputs: box and origin coordinates range over 0..CoordMax
CoordMax == 1
\* ray.rs inputs: direction components range over -DirMax..DirMax
DirMax == 1

(***************************************************************************)
(* Arrays indexed from 0.                                                  *)
(***************************************************************************)
Len0(a) == Cardinality(DOMAIN a)

Empty0 == [i \in {} |-> 0]

Push0(a, x) == [i \in 0..Len0(a) |-> IF i = Len0(a) THEN x ELSE a[i]]

Truncate0(a, n) == [i \in 0..(n - 1) |-> a[i]]

(***************************************************************************)
(* Bind(e, F) is F(e) with e evaluated once: LET x == e IN F(x).           *)
(***************************************************************************)
Bind(e, F(_)) == CHOOSE r \in {F(x) : x \in {e}} : TRUE

(***************************************************************************)
(* Vectors and AABBs.  A vector is <<x, y, z>>; an AABB is                 *)
(* [min |-> vector, max |-> vector].                                       *)
(***************************************************************************)
Axes == 1..3

Abs(n) == IF n < 0 THEN -n ELSE n

Min2(a, b) == IF a < b THEN a ELSE b

Max2(a, b) == IF a > b THEN a ELSE b

\* AABB::with_bounds
with_bounds(mn, mx) == [min |-> mn, max |-> mx]

\* impl Index<usize> for AABB: aabb[0] is min, aabb[1] is max
AABBIndex(aabb, i) == IF i = 0 THEN aabb.min ELSE aabb.max

(***************************************************************************)
(* f64 values that the slab tests produce.                                 *)
(*   [nan |-> TRUE, ...]                NaN                                *)
(*   [nan |-> FALSE, inf |-> 1 or -1]   +inf, -inf                         *)
(*   [nan |-> FALSE, inf |-> 0, n, d]   the fraction n/d, d > 0            *)
(***************************************************************************)
FNaN == [nan |-> TRUE, inf |-> 0, n |-> 0, d |-> 1]

FInf(s) == [nan |-> FALSE, inf |-> s, n |-> 0, d |-> 1]

FFrac(n, d) == [nan |-> FALSE, inf |-> 0, n |-> n, d |-> d]

FZero == FFrac(0, 1)

\* a < b on f64: false as soon as an operand is NaN
FLt(a, b) ==
    /\ ~a.nan
    /\ ~b.nan
    /\ IF a.inf # 0 \/ b.inf # 0
       THEN a.inf < b.inf
       ELSE a.n * b.d < b.n * a.d

FGt(a, b) == FLt(b, a)

\* a >= b on f64: false as soon as an operand is NaN
FGe(a, b) ==
    /\ ~a.nan
    /\ ~b.nan
    /\ ~FLt(a, b)

\* f64::min: the other operand when one is NaN
FMin(a, b) ==
    IF a.nan THEN b
    ELSE IF b.nan THEN a
    ELSE IF FLt(b, a) THEN b ELSE a

\* f64::max: the other operand when one is NaN
FMax(a, b) ==
    IF a.nan THEN b
    ELSE IF b.nan THEN a
    ELSE IF FLt(a, b) THEN b ELSE a

(***************************************************************************)
(* Ray (src/shapes/ray.rs).                                                *)
(***************************************************************************)
\* 1.0 / direction.k, kept as the component it is the reciprocal of and
\* a sign: sign is 1 as Ray::new computes it and -1 once negated, so that
\* the reciprocal of +0.0 is +inf and its negation -inf
Recip(dk) == [sign |-> 1, of |-> dk]

\* -inv_direction.k
NegRecip(inv) == [sign |-> -inv.sign, of |-> inv.of]

\* diff * inv_direction.k for an integer difference diff
SlabDist(diff, inv) ==
    LET sd == inv.sign * diff
        dk == inv.of
    IN  IF dk = 0
        THEN IF sd > 0 THEN FInf(1)
             ELSE IF sd < 0 THEN FInf(-1)
             ELSE FNaN
        ELSE IF dk > 0 THEN FFrac(sd, dk)
        ELSE FFrac(-sd, -dk)

\* the reciprocal of a NaN component: every product with it is NaN
RecipNaN == [sign |-> 0, of |-> 0]

\* Ray::new: direction (normalised), its reciprocal and the three sign bits.
\* The normalisation scales every distance of a ray by one positive factor
\* and is left out; the zero vector normalises to NaN components, which
\* are not < 0.0.
RayNew(origin, direction) ==
    [origin        |-> origin,
     direction     |-> direction,
     inv_direction |-> [k \in Axes |->
                          IF direction = <<0, 0, 0>> THEN RecipNaN
                          ELSE Recip(direction[k])],
     sign_x        |-> IF direction[1] < 0 THEN 1 ELSE 0,
     sign_y        |-> IF direction[2] < 0 THEN 1 ELSE 0,
     sign_z        |-> IF direction[3] < 0 THEN 1 ELSE 0]

\* (aabb[i].k - origin.k) * inv_direction.k
RayT(r, aabb, i, k) ==
    SlabDist(AABBIndex(aabb, i)[k] - r.origin[k], r.inv_direction[k])

\* Ray::intersects_aabb with the sign bits of its ray replaced by sx, sy, sz
SlabTest(r, aabb, sx, sy, sz) ==
    LET x_min == RayT(r, aabb, sx, 1)
        x_max == RayT(r, aabb, 1 - sx, 1)
        y_min == RayT(r, aabb, sy, 2)
        y_max == RayT(r, aabb, 1 - sy, 2)
        z_min == RayT(r, aabb, sz, 3)
        z_max == RayT(r, aabb, 1 - sz, 3)
        ray_min1 == IF FGt(y_min, x_min) THEN y_min ELSE x_min
        ray_max1 == IF FLt(y_max, x_max) THEN y_max ELSE x_max
        ray_max2 == IF FLt(z_max, ray_max1) THEN z_max ELSE ray_max1
    IN  IF FGt(x_min, y_max) \/ FGt(y_min, x_max) THEN FALSE
        ELSE IF FGt(ray_min1, z_max) \/ FGt(z_min, ray_max1) THEN FALSE
        ELSE FGt(ray_max2, FZero)

\* the slab test reading the far corner where the near one is due
intersects_aabb_swapped(r, aabb) ==
    SlabTest(r, aabb, 1 - r.sign_x, 1 - r.sign_y, 1 - r.sign_z)

\* impl IntersectionAABB for Ray: the sign-table slab test
intersects_aabb(r, aabb) ==
    SlabTest(r, aabb, r.sign_x, r.sign_y, r.sign_z)

\* Ray::intersects_aabb_naive
intersects_aabb_naive(r, aabb) ==
    LET hit_min_x == RayT(r, aabb, 0, 1)
        hit_max_x == RayT(r, aabb, 1, 1)
        hit_min_y == RayT(r, aabb, 0, 2)
        hit_max_y == RayT(r, aabb, 1, 2)
        hit_min_z == RayT(r, aabb, 0, 3)
        hit_max_z == RayT(r, aabb, 1, 3)
        x_entry == FMin(hit_min_x, hit_max_x)
        y_entry == FMin(hit_min_y, hit_max_y)
        z_entry == FMin(hit_min_z, hit_max_z)
        x_exit == FMax(hit_min_x, hit_max_x)
        y_exit == FMax(hit_min_y, hit_max_y)
        z_exit == FMax(hit_min_z, hit_max_z)
        latest_entry == FMax(FMax(x_entry, y_entry), z_entry)
        earliest_exit == FMin(FMin(x_exit, y_exit), z_exit)
    IN  FLt(latest_entry, earliest_exit) /\ FGt(earliest_exit, FZero)

\* Ray::intersects_aabb_branchless
intersects_aabb_branchless(r, aabb) ==
    LET tx1 == RayT(r, aabb, 0, 1)
        tx2 == RayT(r, aabb, 1, 1)
        ty1 == RayT(r, aabb, 0, 2)
        ty2 == RayT(r, aabb, 1, 2)
        tz1 == RayT(r, aabb, 0, 3)
        tz2 == RayT(r, aabb, 1, 3)
        tmin1 == FMin(tx1, tx2)
        tmax1 == FMax(tx1, tx2)
        tmin2 == FMax(tmin1, FMin(ty1, ty2))
        tmax2 == FMin(tmax1, FMax(ty1, ty2))
        tmin3 == FMax(tmin2, FMin(tz1, tz2))
        tmax3 == FMin(tmax2, FMax(tz1, tz2))
    IN  FGe(tmax3, tmin3) /\ FGe(tmax3, FZero)

(***************************************************************************)
(* AABB operations used by the tree (spec section 3 and 4.1).              *)
(***************************************************************************)
\* AABB::join: componentwise min / max
join(a, b) ==
    [min |-> [k \in Axes |-> Min2(a.min[k], b.min[k])],
     max |-> [k \in Axes |-> Max2(a.max[k], b.max[k])]]

\* AABB::surface_area = 2 (sx sy + sy sz + sz sx)
surface_area(a) ==
    LET sx == a.max[1] - a.min[1]
        sy == a.max[2] - a.min[2]
        sz == a.max[3] - a.min[3]
    IN  2 * (sx * sy + sy * sz + sz * sx)

\* a contains every point of b
AABBContains(a, b) ==
    \A k \in Axes : a.min[k] <= b.min[k] /\ b.max[k] <= a.max[k]

\* AABB::largest_axis: argmax of size
largest_axis(a) ==
    LET sx == a.max[1] - a.min[1]
        sy == a.max[2] - a.min[2]
        sz == a.max[3] - a.min[3]
    IN  IF sx > sy /\ sx > sz THEN 1
        ELSE IF sy > sz THEN 2
        ELSE 3

\* AABB::empty: min = +inf, max = -inf, the identity of grow
AABBEmpty == [min |-> <<0, 0, 0>>, max |-> <<0, 0, 0>>, empty |-> TRUE]

\* AABB::grow(point): componentwise min / max with the point
grow(aabb, p) ==
    IF "empty" \in DOMAIN aabb THEN with_bounds(p, p)
    ELSE [min |-> [k \in Axes |-> Min2(aabb.min[k], p[k])],
          max |-> [k \in Axes |-> Max2(aabb.max[k], p[k])]]

\* AABB::center = (min + max) / 2
AABBCenter(aabb) == [k \in Axes |-> (aabb.min[k] + aabb.max[k]) \div 2]

\* AABB::contains(point): the closed box
AABBContainsPoint(aabb, p) ==
    \A k \in Axes : aabb.min[k] <= p[k] /\ p[k] <= aabb.max[k]

(***************************************************************************)
(* Shapes of the C interface (src/lib.rs): BVHBounds is a centre, the      *)
(* extents (half sizes) and the index of the leaf that refers to it.       *)
(***************************************************************************)
BVHBounds(center, extents, index) ==
    [center |-> center, extents |-> extents, index |-> index]

\* impl Bounded for BVHBounds: min = center - extents, max = center + extents
ShapeAABB(shape) ==
    with_bounds([k \in Axes |-> shape.center[k] - shape.extents[k]],
                [k \in Axes |-> shape.center[k] + shape.extents[k]])

\* a set_bh_node_index that stores the index plus one
set_bh_node_index_off(shapes, s, index) ==
    [shapes EXCEPT ![s].index = index + 1]

\* impl BHShape for BVHBounds: set_bh_node_index on shapes[s]
set_bh_node_index(shapes, s, index) ==
    [shapes EXCEPT ![s].index = index]

\* impl BHShape for BVHBounds: bh_node_index
bh_node_index(shape) == shape.index

(***************************************************************************)
(* Nodes (spec section 3).  The root is index 0 and is its own parent.     *)
(***************************************************************************)
\* a leaf that names the root as its parent wherever it hangs
LeafUnderRoot(parent, shape_index) ==
    [kind |-> "Leaf", parent |-> 0, shape_index |-> shape_index]

Leaf(parent, shape_index) ==
    [kind |-> "Leaf", parent |-> parent, shape_index |-> shape_index]

Node(parent, child_l, child_r, aabb_l, aabb_r) ==
    [kind |-> "Node", parent |-> parent,
     child_l |-> child_l, child_r |-> child_r,
     aabb_l |-> aabb_l, aabb_r |-> aabb_r]

IsLeaf(n) == n.kind = "Leaf"

\* the AABB of the subtree at node i, read from the node itself
NodeAABB(ns, sh, i) ==
    IF IsLeaf(ns[i])
    THEN ShapeAABB(sh[ns[i].shape_index])
    ELSE join(ns[i].aabb_l, ns[i].aabb_r)

(***************************************************************************)
(* Build: top-down SAH partition of an index list (spec section 4.3).      *)
(* An index list is a sequence of shape indices.                           *)
(***************************************************************************)
\* the small-input threshold of step 4
SmallInput == 5

\* the number of buckets B of step 4
NumBuckets == 6

SetMin(S) == CHOOSE x \in S : \A y \in S : x <= y

SetMax(S) == CHOOSE x \in S : \A y \in S : x >= y

SeqRange(s) == {s[i] : i \in 1..Len(s)}

\* shapes_bb: the union of the AABBs of the shapes in a nonempty index list
ShapesBB(sh, indices) ==
    [min |-> [k \in Axes |->
                SetMin({ShapeAABB(sh[s]).min[k] : s \in SeqRange(indices)})],
     max |-> [k \in Axes |->
                SetMax({ShapeAABB(sh[s]).max[k] : s \in SeqRange(indices)})]]

\* the centroid of a shape's AABB, (min + max) / 2, is the shape's centre
Centroid(shape) == shape.center

\* centroid_bb: the union of the centroids of the shapes in the index list
CentroidBB(sh, indices) ==
    [min |-> [k \in Axes |->
                SetMin({Centroid(sh[s])[k] : s \in SeqRange(indices)})],
     max |-> [k \in Axes |->
                SetMax({Centroid(sh[s])[k] : s \in SeqRange(indices)})]]

\* the index list ordered by centroid along an axis, equal centroids in
\* the order of the list
RECURSIVE SortByCentroid(_, _, _)
SortByCentroid(sh, indices, axis) ==
    IF Len(indices) = 0 THEN << >>
    ELSE LET lo == SetMin({Centroid(sh[indices[i]])[axis] :
                              i \in 1..Len(indices)})
             p  == SetMin({i \in 1..Len(indices) :
                              Centroid(sh[indices[i]])[axis] = lo})
             rest == SubSeq(indices, 1, p - 1)
                       \o SubSeq(indices, p + 1, Len(indices))
         IN  <<indices[p]>> \o SortByCentroid(sh, rest, axis)

\* SAH cost of a split: SA(L) N_L + SA(R) N_R
SplitCost(sh, left, right) ==
    surface_area(ShapesBB(sh, left)) * Len(left)
      + surface_area(ShapesBB(sh, right)) * Len(right)

\* of the candidate splits (pairs <<left, right>>, in order), the one of
\* least cost; on equal cost the one splitting the counts more evenly,
\* then the first
BestSplit(sh, cands) ==
    LET cost(i) == SplitCost(sh, cands[i][1], cands[i][2])
        skew(i) == Abs(Len(cands[i][1]) - Len(cands[i][2]))
        better(i, j) ==
            \/ cost(i) < cost(j)
            \/ cost(i) = cost(j) /\ skew(i) < skew(j)
            \/ cost(i) = cost(j) /\ skew(i) = skew(j) /\ i <= j
        best == CHOOSE i \in 1..Len(cands) :
                    \A j \in 1..Len(cands) : better(i, j)
    IN  cands[best]

\* step 4, small input: every split position of the list ordered along
\* the axis
ExactSplits(sh, indices, axis) ==
    LET sorted == SortByCentroid(sh, indices, axis)
        n == Len(sorted)
    IN  [k \in 1..(n - 1) |->
            <<SubSeq(sorted, 1, k), SubSeq(sorted, k + 1, n)>>]

\* step 4, buckets: the bucket of a shape by the relative position of its
\* centroid in centroid_bb along the axis
Bucket(sh, cbb, axis, s) ==
    Min2(NumBuckets - 1,
         (NumBuckets * (Centroid(sh[s])[axis] - cbb.min[axis]))
            \div (cbb.max[axis] - cbb.min[axis]))

\* step 5: the B - 1 interior bucket boundaries
BucketSplits(sh, indices, cbb, axis) ==
    [b \in 1..(NumBuckets - 1) |->
        <<SelectSeq(indices, LAMBDA s : Bucket(sh, cbb, axis, s) < b),
          SelectSeq(indices, LAMBDA s : Bucket(sh, cbb, axis, s) >= b)>>]

\* steps 2 to 7: the partition <<left, right>> of an index list of two or
\* more shapes
Partition(sh, indices) ==
    LET cbb  == CentroidBB(sh, indices)
        n    == Len(indices)
        axis == largest_axis(cbb)
    IN  IF cbb.min = cbb.max
        THEN <<SubSeq(indices, 1, n \div 2), SubSeq(indices, n \div 2 + 1, n)>>
        ELSE IF n <= SmallInput
        THEN BestSplit(sh, ExactSplits(sh, indices, axis))
        ELSE BestSplit(sh, BucketSplits(sh, indices, cbb, axis))

\* build(indices, parent_idx) -> node_idx, appending to the node array ns;
\* the result is [nodes, shapes, idx]
RECURSIVE BuildRec(_, _, _, _)
BuildRec(indices, parent_idx, ns, sh) ==
    IF Len(indices) = 1
    THEN [nodes  |-> Push0(ns, Leaf(parent_idx, indices[1])),
          shapes |-> set_bh_node_index(sh, indices[1], Len0(ns)),
          idx    |-> Len0(ns)]
    ELSE LET node_idx == Len0(ns)
             hole == Push0(ns, Leaf(parent_idx, indices[1]))
         IN  Bind(Partition(sh, indices), LAMBDA part :
             Bind(BuildRec(part[1], node_idx, hole, sh), LAMBDA l :
             Bind(BuildRec(part[2], node_idx, l.nodes, l.shapes), LAMBDA r :
               [nodes  |-> [r.nodes EXCEPT ![node_idx] =
                              Node(parent_idx, l.idx, r.idx,
                                   ShapesBB(sh, part[1]),
                                   ShapesBB(sh, part[2]))],
                shapes |-> r.shapes,
                idx    |-> node_idx])))

\* BVH::build over the first count shapes of the array
BVHBuild(sh, count) ==
    IF count = 0
    THEN [nodes |-> Empty0, shapes |-> sh]
    ELSE LET b == BuildRec([i \in 1..count |-> i - 1], 0, Empty0, sh)
         IN  [nodes |-> b.nodes, shapes |-> b.shapes]

(***************************************************************************)
(* Query shapes (spec section 4.2).  A query is a record with a kind.      *)
(*   ray:     origin, dir              (Ray::new(origin, dir))             *)
(*   aabb:    min, max                                                     *)
(*   sphere:  center, radius                                               *)
(*   capsule: start, end, radius       (start <= end, axis-parallel)       *)
(*   obb:     center, extents          (identity orientation)              *)
(* The capsule and the OBB are taken on the inputs on which their tests    *)
(* are exact in integers: a segment parallel to an axis is its own         *)
(* bounding box, and an OBB with the identity orientation is an AABB.      *)
(***************************************************************************)
Sq(n) == n * n

\* the gap between the intervals [a1, a2] and [b1, b2]
Gap(a1, a2, b1, b2) == Max2(0, Max2(b1 - a2, a1 - b2))

\* AABB as a query shape: min <= other.max and max >= other.min
AABBIntersects(a, b) ==
    \A k \in Axes : a.min[k] <= b.max[k] /\ a.max[k] >= b.min[k]

\* Sphere: distance from the centre to the closest point of the AABB
\* is at most the radius
SphereIntersects(center, radius, aabb) ==
    LET d2(k) == Sq(Gap(center[k], center[k], aabb.min[k], aabb.max[k]))
    IN  d2(1) + d2(2) + d2(3) <= Sq(radius)

\* Capsule: distance from the segment to the AABB is at most the radius
CapsuleIntersects(start, end, radius, aabb) ==
    LET d2(k) == Sq(Gap(start[k], end[k], aabb.min[k], aabb.max[k]))
    IN  d2(1) + d2(2) + d2(3) <= Sq(radius)

\* OBB: separating axis test, here on the three shared axes
OBBIntersects(center, extents, aabb) ==
    \A k \in Axes : Gap(center[k] - extents[k], center[k] + extents[k],
                        aabb.min[k], aabb.max[k]) = 0

\* IntersectionAABB::intersects_aabb of the query shape q
QIntersects(q, aabb) ==
    CASE q.kind = "ray" ->
            intersects_aabb(RayNew(q.origin, q.dir), aabb)
      [] q.kind = "aabb" ->
            AABBIntersects(with_bounds(q.min, q.max), aabb)
      [] q.kind = "sphere" ->
            SphereIntersects(q.center, q.radius, aabb)
      [] q.kind = "capsule" ->
            CapsuleIntersects(q.start, q.end, q.radius, aabb)
      [] q.kind = "obb" ->
            OBBIntersects(q.center, q.extents, aabb)

(***************************************************************************)
(* Traversal (spec section 4.4).  Both forms give the sequence of shape    *)
(* indices in the order they are produced.                                 *)
(***************************************************************************)
\* a single leaf emitted untested, as a leaf below a node is
RootLeafAlways(ns, sh, q) == <<ns[0].shape_index>>

\* a tree that is a single leaf: the primitive is tested against its AABB
RootLeaf(ns, sh, q) ==
    IF QIntersects(q, ShapeAABB(sh[ns[0].shape_index]))
    THEN <<ns[0].shape_index>>
    ELSE << >>

\* recursive collection below node i: left, then right
RECURSIVE TraverseRec(_, _, _)
TraverseRec(ns, i, q) ==
    IF IsLeaf(ns[i])
    THEN <<ns[i].shape_index>>
    ELSE (IF QIntersects(q, ns[i].aabb_l)
          THEN TraverseRec(ns, ns[i].child_l, q) ELSE << >>)
           \o
         (IF QIntersects(q, ns[i].aabb_r)
          THEN TraverseRec(ns, ns[i].child_r, q) ELSE << >>)

\* BVH::traverse
Traverse(ns, sh, q) ==
    IF Len0(ns) = 0 THEN << >>
    ELSE IF IsLeaf(ns[0]) THEN RootLeaf(ns, sh, q)
    ELSE TraverseRec(ns, 0, q)

\* the iterator's loop from the state (stack, node_index, has_node) to
\* exhaustion: with a node in hand push it and move to its left child;
\* otherwise pop, yield a leaf or move to the right child of a node
RECURSIVE IterRun(_, _, _, _, _)
IterRun(ns, q, stack, node_index, has_node) ==
    IF stack = << >> /\ ~has_node THEN << >>
    ELSE IF has_node
    THEN LET n == ns[node_index]
             pushed == Append(stack, node_index)
         IN  IF ~IsLeaf(n) /\ QIntersects(q, n.aabb_l)
             THEN IterRun(ns, q, pushed, n.child_l, TRUE)
             ELSE IterRun(ns, q, pushed, node_index, FALSE)
    ELSE LET top == stack[Len(stack)]
             popped == SubSeq(stack, 1, Len(stack) - 1)
             n == ns[top]
         IN  IF IsLeaf(n)
             THEN <<n.shape_index>> \o IterRun(ns, q, popped, top, FALSE)
             ELSE IF QIntersects(q, n.aabb_r)
             THEN IterRun(ns, q, popped, n.child_r, TRUE)
             ELSE IterRun(ns, q, popped, top, FALSE)

\* BVH::traverse_iterator, run to exhaustion
TraverseIterator(ns, sh, q) ==
    IF Len0(ns) = 0 THEN << >>
    ELSE IF IsLeaf(ns[0]) THEN RootLeaf(ns, sh, q)
    ELSE IterRun(ns, q, << >>, 0, TRUE)

(***************************************************************************)
(* Incremental mutation (spec section 4.5).                                *)
(***************************************************************************)
\* a refit that recomputes the left child's AABB only
RefitLeftOnly(ns, sh, i) ==
    IF IsLeaf(ns[i]) THEN ns
    ELSE [ns EXCEPT ![i].aabb_l = NodeAABB(ns, sh, ns[i].child_l)]

\* an internal node's stored child AABBs set to the unions of its subtrees
Refit(ns, sh, i) ==
    IF IsLeaf(ns[i]) THEN ns
    ELSE [ns EXCEPT ![i].aabb_l = NodeAABB(ns, sh, ns[i].child_l),
                    ![i].aabb_r = NodeAABB(ns, sh, ns[i].child_r)]

\* the four candidate rotations at a node: the child on `side` is internal
\* and its grandchild in slot `slot` is swapped with the other child
Rotations == << [side |-> "l", slot |-> "l"], [side |-> "l", slot |-> "r"],
                [side |-> "r", slot |-> "l"], [side |-> "r", slot |-> "r"] >>

RotChild(ns, i, rot) ==
    IF rot.side = "l" THEN ns[i].child_l ELSE ns[i].child_r

RotUncle(ns, i, rot) ==
    IF rot.side = "l" THEN ns[i].child_r ELSE ns[i].child_l

RotUncleBox(ns, i, rot) ==
    IF rot.side = "l" THEN ns[i].aabb_r ELSE ns[i].aabb_l

\* the grandchild that moves up, and its AABB
RotGrand(ns, i, rot) ==
    LET c == ns[RotChild(ns, i, rot)]
    IN  IF rot.slot = "l" THEN c.child_l ELSE c.child_r

RotGrandBox(ns, i, rot) ==
    LET c == ns[RotChild(ns, i, rot)]
    IN  IF rot.slot = "l" THEN c.aabb_l ELSE c.aabb_r

\* the AABB of the grandchild that stays
RotStayBox(ns, i, rot) ==
    LET c == ns[RotChild(ns, i, rot)]
    IN  IF rot.slot = "l" THEN c.aabb_r ELSE c.aabb_l

RotApplicable(ns, i, rot) == ~IsLeaf(ns[RotChild(ns, i, rot)])

\* the sum of the surface areas of the node's two child AABBs
RotCostNow(ns, i) ==
    surface_area(ns[i].aabb_l) + surface_area(ns[i].aabb_r)

\* the same sum after the rotation
RotCostAfter(ns, i, rot) ==
    surface_area(join(RotUncleBox(ns, i, rot), RotStayBox(ns, i, rot)))
      + surface_area(RotGrandBox(ns, i, rot))

\* the rotation applied: child and parent fields change, no node moves
ApplyRotation(ns, i, rot) ==
    LET c    == RotChild(ns, i, rot)
        u    == RotUncle(ns, i, rot)
        g    == RotGrand(ns, i, rot)
        ubox == RotUncleBox(ns, i, rot)
        gbox == RotGrandBox(ns, i, rot)
        cbox == join(ubox, RotStayBox(ns, i, rot))
        ci   == IF rot.slot = "l"
                THEN [ns[c] EXCEPT !.child_l = u, !.aabb_l = ubox]
                ELSE [ns[c] EXCEPT !.child_r = u, !.aabb_r = ubox]
        ni   == IF rot.side = "l"
                THEN [ns[i] EXCEPT !.child_r = g, !.aabb_r = gbox,
                                   !.aabb_l = cbox]
                ELSE [ns[i] EXCEPT !.child_l = g, !.aabb_l = gbox,
                                   !.aabb_r = cbox]
    IN  [j \in DOMAIN ns |->
            IF j = i THEN ni
            ELSE IF j = c THEN ci
            ELSE IF j = u THEN [ns[u] EXCEPT !.parent = c]
            ELSE IF j = g THEN [ns[g] EXCEPT !.parent = i]
            ELSE ns[j]]

\* the candidates that apply at node i, in order
RotCandidates(ns, i) ==
    SelectSeq(Rotations, LAMBDA rot : RotApplicable(ns, i, rot))

\* the candidate of least sum, the first of them on a tie
BestRotation(ns, i) ==
    LET cs == RotCandidates(ns, i)
        k  == CHOOSE a \in 1..Len(cs) :
                \A b \in 1..Len(cs) :
                    \/ RotCostAfter(ns, i, cs[a]) < RotCostAfter(ns, i, cs[b])
                    \/ /\ RotCostAfter(ns, i, cs[a]) = RotCostAfter(ns, i, cs[b])
                       /\ a <= b
    IN  cs[k]

\* a rotation applied whenever one applies, better or not
RotationFiresAlways(ns, i) ==
    /\ ~IsLeaf(ns[i])
    /\ RotCandidates(ns, i) # << >>

\* whether a rotation is applied at node i
RotationFires(ns, i) ==
    /\ ~IsLeaf(ns[i])
    /\ RotCandidates(ns, i) # << >>
    /\ RotCostAfter(ns, i, BestRotation(ns, i)) < RotCostNow(ns, i)

\* step 5 at one node: the best rotation, if it strictly decreases the sum
TryRotate(ns, i) ==
    IF RotationFires(ns, i)
    THEN Bind(BestRotation(ns, i), LAMBDA rot : ApplyRotation(ns, i, rot))
    ELSE ns

\* steps 4 and 5: from node i up the parent chain to the root, refit the
\* node and attempt a rotation at it
RECURSIVE FixUp(_, _, _)
FixUp(ns, sh, i) ==
    Bind(Refit(ns, sh, i), LAMBDA fitted :
    Bind(TryRotate(fitted, i), LAMBDA done :
      IF i = 0 THEN done ELSE FixUp(done, sh, done[i].parent)))

\* how much the surface area of a grows by union with box
Growth(a, box) == surface_area(join(a, box)) - surface_area(a)

\* step 2: descend from node i to the leaf whose AABB grows least
RECURSIVE ChooseLeaf(_, _, _)
ChooseLeaf(ns, i, box) ==
    IF IsLeaf(ns[i]) THEN i
    ELSE IF Growth(ns[i].aabb_l, box) <= Growth(ns[i].aabb_r, box)
    THEN ChooseLeaf(ns, ns[i].child_l, box)
    ELSE ChooseLeaf(ns, ns[i].child_r, box)

\* steps 2 and 3 of add_node on a tree that is not empty: the chosen leaf
\* becomes an internal node over the relocated leaf and the new leaf.  The
\* result names the node to refit from.
Graft(ns, sh, new_shape) ==
    LET box == ShapeAABB(sh[new_shape])
        li  == ChooseLeaf(ns, 0, box)
        old == ns[li]
        n   == Len0(ns)
        ns1 == [ns EXCEPT ![li] =
                   Node(old.parent, n, n + 1,
                        ShapeAABB(sh[old.shape_index]), box)]
        ns2 == Push0(Push0(ns1, Leaf(li, old.shape_index)),
                     Leaf(li, new_shape))
        sh1 == set_bh_node_index(
                   set_bh_node_index(sh, old.shape_index, n),
                   new_shape, n + 1)
    IN  [nodes |-> ns2, shapes |-> sh1, start |-> li]

\* BVH::add_node(shapes, new_shape): the result is [nodes, shapes]
BVHAddNode(ns, sh, new_shape) ==
    IF Len0(ns) = 0
    THEN [nodes  |-> Push0(Empty0, Leaf(0, new_shape)),
          shapes |-> set_bh_node_index(sh, new_shape, 0)]
    ELSE Bind(Graft(ns, sh, new_shape), LAMBDA g :
           [nodes |-> FixUp(g.nodes, g.shapes, g.start), shapes |-> g.shapes])

\* a move that leaves the moved leaf's shape pointing at the old slot
RelinkShapeStale(sh, m, d) == sh

\* node m moved to slot d: a leaf's shape is told its new node index
RelinkShape(sh, m, d) ==
    IF IsLeaf(m) THEN set_bh_node_index(sh, m.shape_index, d) ELSE sh

\* free slot d by moving the tail entry into it and truncating; the moved
\* node's parent, children or shape are pointed at its new place.  `start`
\* is an index being tracked across the move.
SwapRemove(ns, sh, d, start) ==
    LET last == Len0(ns) - 1
        m    == ns[last]
    IN  IF d = last
        THEN [nodes |-> Truncate0(ns, last), shapes |-> sh, start |-> start]
        ELSE [nodes |->
                Truncate0(
                  [j \in DOMAIN ns |->
                     IF j = d THEN m
                     ELSE IF j = m.parent
                     THEN IF ns[j].child_l = last
                          THEN [ns[j] EXCEPT !.child_l = d]
                          ELSE [ns[j] EXCEPT !.child_r = d]
                     ELSE IF ~IsLeaf(m) /\ j \in {m.child_l, m.child_r}
                     THEN [ns[j] EXCEPT !.parent = d]
                     ELSE ns[j]],
                  last),
              shapes |-> RelinkShape(sh, m, d),
              start |-> IF start = last THEN d ELSE start]

\* the sibling takes the parent's place: in the grandparent's child slot,
\* or at index 0 when the parent is the root.  The result names the two
\* slots to free and the node to refit from.
Unlink(ns, sh, li) ==
    LET p  == ns[li].parent
        si == IF ns[p].child_l = li THEN ns[p].child_r ELSE ns[p].child_l
        sbox == IF ns[p].child_l = li THEN ns[p].aabb_r ELSE ns[p].aabb_l
        s  == ns[si]
        g  == ns[p].parent
    IN  IF p = 0
        THEN [nodes |->
                [j \in DOMAIN ns |->
                   IF j = 0 THEN [s EXCEPT !.parent = 0]
                   ELSE IF ~IsLeaf(s) /\ j \in {s.child_l, s.child_r}
                   THEN [ns[j] EXCEPT !.parent = 0]
                   ELSE ns[j]],
              shapes |-> IF IsLeaf(s)
                         THEN set_bh_node_index(sh, s.shape_index, 0)
                         ELSE sh,
              dead |-> {li, si},
              start |-> 0]
        ELSE [nodes |->
                [j \in DOMAIN ns |->
                   IF j = g
                   THEN IF ns[g].child_l = p
                        THEN [ns[g] EXCEPT !.child_l = si, !.aabb_l = sbox]
                        ELSE [ns[g] EXCEPT !.child_r = si, !.aabb_r = sbox]
                   ELSE IF j = si THEN [s EXCEPT !.parent = g]
                   ELSE ns[j]],
              shapes |-> sh,
              dead |-> {li, p},
              start |-> g]

\* a removal of the only node that leaves it in place
ClearOnlyNodeKeep(ns) == ns

\* step 2 of remove_node: the only node goes and the array becomes empty
ClearOnlyNode(ns) == Empty0

\* steps 1 and 2 of remove_node on a tree of more than one node: the leaf
\* and its parent are unlinked and their slots freed.  The result names
\* the node to refit from.
Detach(ns, sh, remove_shape) ==
    LET li == bh_node_index(sh[remove_shape])
        u  == Unlink(ns, sh, li)
        r1 == SwapRemove(u.nodes, u.shapes, SetMax(u.dead), u.start)
    IN  SwapRemove(r1.nodes, r1.shapes, SetMin(u.dead), r1.start)

\* BVH::remove_node(shapes, remove_shape): the result is [nodes, shapes]
BVHRemoveNode(ns, sh, remove_shape) ==
    IF Len0(ns) = 1
    THEN [nodes |-> ClearOnlyNode(ns), shapes |-> sh]
    ELSE Bind(Detach(ns, sh, remove_shape), LAMBDA r2 :
           [nodes  |-> FixUp(r2.nodes, r2.shapes, r2.start),
            shapes |-> r2.shapes])

(***************************************************************************)
(* State.                                                                  *)
(***************************************************************************)
VARIABLES
    pc,       \* "new": no tree built yet; "live": the caller holds a tree;
              \* "freed": the caller has given the tree back
    boxes,    \* the caller's shape array (BVHBounds), indexed from 0
    nodes,    \* the contents of the node array
    vec,      \* the node array's allocation: [ptr, cap]
    bvhRef,   \* the BVHRef the caller holds: [ptr, len, cap]
    members,  \* the shapes the caller has put in the tree and not removed
    call,     \* the last call of the interface; a query's arguments
    trip,     \* how far build; add_node(s); remove_node(s) has got
    res,      \* the caller's result memory, indexed from 0
    ret,      \* the value the last query returned
    rayIn,    \* ray.rs: the (origin, direction, aabb) under test
    rayOut,   \* ray.rs: what the three algorithms returned for rayIn
    aim,      \* ray.rs tests: the two points of an AABB and a ray origin
    aimOut,   \* ray.rs tests: the ray and AABB made of aim, and the verdicts
    iter,     \* the traversal iterator the caller holds, if any
    hits      \* the caller's per-ray counts of batch_query_rays, from 0

vars == <<pc, boxes, nodes, vec, bvhRef, members, call, trip, res, ret,
          rayIn, rayOut, aim, aimOut, iter, hits>>

treeVars == <<pc, boxes, nodes, vec, bvhRef, members, call, trip, res, ret,
              hits>>

rayVars == <<rayIn, rayOut, aim, aimOut>>

(***************************************************************************)
(* Bounds and inputs of the tree model.                                    *)
(***************************************************************************)
\* the length of the caller's shape array, with queries
NumShapes == 3
\* the length of the caller's shape array, build and mutation alone
DeepShapes == 4
\* the largest max_res a query is called with
MaxRes == 2
\* the largest rayCount batch_query_rays is called with
MaxRays == 2

\* the caller's scenes: shape i of each
Scenes == {"row", "flat", "same"}

SceneShape(scene, i) ==
    CASE scene = "row" ->
            \* unit cubes in a row, each touching the next; every other
            \* one is a point
            BVHBounds(<<2 * i, 0, 0>>,
                      IF i % 2 = 1 THEN <<0, 0, 0>> ELSE <<1, 1, 1>>, 0)
      [] scene = "flat" ->
            \* flat tiles and points on a grid in the plane z = 0
            BVHBounds(<<2 * (i % 2), 2 * (i \div 2), 0>>,
                      IF i % 3 = 0 THEN <<0, 0, 0>> ELSE <<1, 1, 0>>, 0)
      [] scene = "same" ->
            \* boxes of growing size around one centre
            BVHBounds(<<1, 1, 1>>, <<i % 3, i % 2, 1>>, 0)

\* a slot of the result memory that holds no shape
NoShape == [center |-> <<0, 0, 0>>, extents |-> <<0, 0, 0>>, index |-> -1]

\* the result memory handed to a query: max_res slots and one slot of the
\* caller's memory after them
FreshRes == [j \in 0..MaxRes |-> NoShape]

\* a slot of the caller's hits array that no call has written
NoHit == 0 - 1

\* the caller's hits array before a call: one slot more than the largest
\* rayCount
FreshHits == [r \in 0..MaxRays |-> NoHit]

QRay(origin, dir) == [kind |-> "ray", origin |-> origin, dir |-> dir]

QAabb(center, extents) ==
    [kind |-> "aabb",
     min |-> [k \in Axes |-> center[k] - extents[k]],
     max |-> [k \in Axes |-> center[k] + extents[k]]]

QSphere(center, radius) ==
    [kind |-> "sphere", center |-> center, radius |-> radius]

QCapsule(start, end, radius) ==
    [kind |-> "capsule", start |-> start, end |-> end, radius |-> radius]

QObb(center, extents) ==
    [kind |-> "obb", center |-> center, extents |-> extents]

\* the query shapes the interface is called with
RayArgs == {QRay(<<-2, 0, 0>>, <<1, 0, 0>>), QRay(<<1, -2, 0>>, <<0, 1, 0>>)}

\* the rays batch_query_rays is called with
BatchRays == RayArgs

SphereArgs == {QSphere(<<3, 1, 0>>, 1)}

CapsuleArgs == {QCapsule(<<1, -1, 0>>, <<1, 3, 0>>, 0)}

AabbArgs == {QAabb(<<1, 1, 0>>, <<1, 1, 1>>)}

ObbArgs == {QObb(<<4, 0, 0>>, <<1, 1, 1>>)}

\* the query shapes traversal is examined on in every state
RayQueries ==
    {QRay(o, d) : o \in {<<-2, 0, 0>>, <<0, 0, 0>>, <<1, -2, 0>>, <<2, 2, 0>>},
                  d \in {<<1, 0, 0>>, <<0, 1, 0>>, <<1, 1, 0>>, <<-1, 0, 0>>,
                         <<1, 1, 1>>, <<0, -1, 0>>}}

SphereQueries ==
    {QSphere(c, r) : c \in {<<0, 0, 0>>, <<3, 1, 0>>}, r \in {0, 1}}

CapsuleQueries ==
    {QCapsule(<<0, 3, 0>>, <<4, 3, 0>>, 1), QCapsule(<<1, -1, 0>>, <<1, 3, 0>>, 0)}

AabbQueries ==
    {QAabb(c, e) : c \in {<<1, 1, 0>>, <<3, 3, 0>>}, e \in {<<0, 0, 0>>, <<1, 1, 1>>}}

ObbQueries ==
    {QObb(<<1, 1, 0>>, <<0, 0, 0>>), QObb(<<4, 0, 0>>, <<1, 1, 1>>)}

Queries ==
    RayQueries \cup SphereQueries \cup CapsuleQueries
      \cup AabbQueries \cup ObbQueries

(***************************************************************************)
(* The node array as a Vec: its allocation and the handle (src/lib.rs).    *)
(***************************************************************************)
\* Vec capacity after a push at len = cap: amortised doubling, at least 4
GrowCap(cap) == Max2(2 * cap, 4)

\* the allocation after the array grew from len to new_len by pushes: a
\* push at len = cap reallocates, which gives a new allocation
RECURSIVE VecAfterPush(_, _, _)
VecAfterPush(v, len, new_len) ==
    IF len >= new_len THEN v
    ELSE IF len = v.cap
    THEN VecAfterPush([ptr |-> v.ptr + 1, cap |-> GrowCap(v.cap)],
                      len + 1, new_len)
    ELSE VecAfterPush(v, len + 1, new_len)

\* the node array build reserves for n shapes: capacity 2n - 1; an array
\* of capacity 0 has no allocation (ptr 0)
VecForBuild(n) ==
    IF n = 0 THEN [ptr |-> 0, cap |-> 0] ELSE [ptr |-> 1, cap |-> 2 * n - 1]

\* a BVHRef that repeats the pointer of the handle passed in
StaleRef(old, v, ns) ==
    [ptr |-> old.ptr, len |-> Len0(ns), cap |-> v.cap]

\* the BVHRef add_node and remove_node return; old is the handle passed in
\* BVHRef { ptr: nodes.as_mut_ptr(), len: nodes.len(), cap: nodes.capacity() }
MutationRef(old, v, ns) ==
    [ptr |-> v.ptr, len |-> Len0(ns), cap |-> v.cap]

\* the BVHRef build_bvh returns
BuildRef(v, ns) ==
    [ptr |-> v.ptr, len |-> Len0(ns), cap |-> v.cap]

\* Vec::from_raw_parts on the handle gives the live node array
RefLive(ref) ==
    /\ ref.ptr = vec.ptr
    /\ ref.len = Len0(nodes)
    /\ ref.cap = vec.cap

\* a Vec that goes out of scope gives its allocation back; one of capacity
\* 0 has none
drop(v) ==
    IF v.cap = 0 THEN v ELSE [ptr |-> 0 - 1, cap |-> 0]

\* a query that lets the node array go out of scope
forget_drops(v) == drop(v)

\* std::mem::forget(bvh.nodes): the allocation stays as it is
forget(v) == v

(***************************************************************************)
(* The C interface (src/lib.rs).                                           *)
(***************************************************************************)
\* the loop of a query that stores a match also when i = max_res
WriteResultsOffByOne(buf, seq, sh, max_res) ==
    [j \in DOMAIN buf |->
        IF j < Len(seq) /\ j <= max_res THEN sh[seq[j + 1]] ELSE buf[j]]

\* the loop of every query over the iterator's matches seq:
\*   if i < max_res { buffer[i] = *x; }  i += 1;
WriteResults(buf, seq, sh, max_res) ==
    [j \in DOMAIN buf |->
        IF j < Len(seq) /\ j < max_res THEN sh[seq[j + 1]] ELSE buf[j]]

\* the count a query returns: i after the loop
QueryCount(seq) == Len(seq)

\* the body shared by query_ray, query_sphere, query_capsule, query_aabb
\* and query_obb, for the query shape q each of them constructs
Query(op, q, max_res) ==
    /\ pc = "live"
    /\ RefLive(bvhRef)
    /\ LET seq == TraverseIterator(nodes, boxes, q)
       IN  /\ res' = WriteResults(FreshRes, seq, boxes, max_res)
           /\ ret' = QueryCount(seq)
    /\ call' = [op |-> op, q |-> q, max_res |-> max_res]
    /\ vec' = forget(vec)
    /\ hits' = FreshHits
    /\ UNCHANGED <<pc, boxes, nodes, bvhRef, members, trip>>
    /\ UNCHANGED <<rayVars, iter>>

\* the inner loop of batch_query_rays with the index back at 0 for each ray
WriteFromStart(buf, seq, sh, max_res, i) ==
    [j \in DOMAIN buf |->
        IF j < Len(seq) /\ j < max_res THEN sh[seq[j + 1]] ELSE buf[j]]

\* the inner loop of batch_query_rays over one ray's matches seq, entered
\* with the running index i:  if i < max_res { buffer[i] = *x; }  i += 1;
WriteFrom(buf, seq, sh, max_res, i) ==
    [j \in DOMAIN buf |->
        IF i <= j /\ j < i + Len(seq) /\ j < max_res
        THEN sh[seq[j - i + 1]] ELSE buf[j]]

\* the outer loop of batch_query_rays from ray r on: i runs on from ray to
\* ray, res counts one ray's matches and goes to hits[r]
RECURSIVE BatchLoop(_, _, _, _, _, _, _, _)
BatchLoop(ns, sh, rays, max_res, r, i, buf, hs) ==
    IF r >= Len(rays) THEN [buffer |-> buf, hits |-> hs, i |-> i]
    ELSE LET seq == TraverseIterator(ns, sh, rays[r + 1])
         IN  BatchLoop(ns, sh, rays, max_res, r + 1, i + Len(seq),
                       WriteFrom(buf, seq, sh, max_res, i),
                       [hs EXCEPT ![r] = Len(seq)])

\* rays: the rayCount rays made of originVecs and dirVecs
batch_query_rays(rays, max_res) ==
    /\ pc = "live"
    /\ RefLive(bvhRef)
    /\ \E b \in {BatchLoop(nodes, boxes, rays, max_res, 0, 0, FreshRes,
                           FreshHits)} :
           /\ res' = b.buffer
           /\ hits' = b.hits
    /\ ret' = 0
    /\ call' = [op |-> "batch_query_rays", rays |-> rays,
                max_res |-> max_res]
    /\ vec' = forget(vec)
    /\ UNCHANGED <<pc, boxes, nodes, bvhRef, members, trip>>
    /\ UNCHANGED <<rayVars, iter>>

\* free_bvh rebuilds the Vec from the handle and lets it go out of scope
free_bvh ==
    /\ pc = "live"
    /\ RefLive(bvhRef)
    /\ vec' = drop(vec)
    /\ nodes' = Empty0
    /\ members' = {}
    /\ pc' = "freed"
    /\ call' = [op |-> "free_bvh"]
    /\ trip' = [stage |-> "none", shape |-> 0]
    /\ res' = FreshRes
    /\ ret' = 0
    /\ hits' = FreshHits
    /\ UNCHANGED <<boxes, bvhRef>>
    /\ UNCHANGED <<rayVars, iter>>

build_bvh(count) ==
    /\ pc = "new"
    /\ \E b \in {BVHBuild(boxes, count)}, v \in {VecForBuild(count)} :
           /\ nodes' = b.nodes
           /\ boxes' = b.shapes
           /\ vec' = v
           /\ bvhRef' = BuildRef(v, b.nodes)
    /\ members' = 0..(count - 1)
    /\ pc' = "live"
    /\ call' = [op |-> "build_bvh"]
    /\ trip' = [stage |-> "built", shape |-> 0]
    /\ res' = FreshRes
    /\ ret' = 0
    /\ hits' = FreshHits
    /\ UNCHANGED <<rayVars, iter>>

query_ray(q, max_res) == Query("query_ray", q, max_res)

query_sphere(q, max_res) == Query("query_sphere", q, max_res)

query_capsule(q, max_res) == Query("query_capsule", q, max_res)

query_aabb(q, max_res) == Query("query_aabb", q, max_res)

query_obb(q, max_res) == Query("query_obb", q, max_res)

add_node(new_shape) ==
    /\ pc = "live"
    /\ RefLive(bvhRef)
    /\ new_shape \notin members
    /\ \E r \in {BVHAddNode(nodes, boxes, new_shape)} :
         \E v \in {VecAfterPush(vec, Len0(nodes), Len0(r.nodes))} :
           /\ nodes' = r.nodes
           /\ boxes' = r.shapes
           /\ vec' = v
           /\ bvhRef' = MutationRef(bvhRef, v, r.nodes)
    /\ members' = members \cup {new_shape}
    /\ call' = [op |-> "add_node"]
    /\ trip' = IF trip.stage = "built"
               THEN [stage |-> "added", shape |-> new_shape]
               ELSE [stage |-> "none", shape |-> 0]
    /\ res' = FreshRes
    /\ ret' = 0
    /\ hits' = FreshHits
    /\ UNCHANGED pc
    /\ UNCHANGED <<rayVars, iter>>

remove_node(remove_shape) ==
    /\ pc = "live"
    /\ RefLive(bvhRef)
    /\ remove_shape \in members
    /\ \E r \in {BVHRemoveNode(nodes, boxes, remove_shape)} :
           /\ nodes' = r.nodes
           /\ boxes' = r.shapes
           /\ bvhRef' = MutationRef(bvhRef, vec, r.nodes)
    /\ members' = members \ {remove_shape}
    /\ call' = [op |-> "remove_node"]
    /\ trip' = IF trip.stage = "added" /\ trip.shape = remove_shape
               THEN [stage |-> "back", shape |-> remove_shape]
               ELSE [stage |-> "none", shape |-> 0]
    /\ res' = FreshRes
    /\ ret' = 0
    /\ hits' = FreshHits
    /\ UNCHANGED <<pc, vec>>
    /\ UNCHANGED <<rayVars, iter>>

(***************************************************************************)
(* The traversal iterator, one turn of its loop at a time (spec section    *)
(* 4.4): the state IterRun runs to exhaustion.                             *)
(***************************************************************************)
NoIter ==
    [phase |-> "idle", q |-> QRay(<<0, 0, 0>>, <<1, 0, 0>>), stack |-> << >>,
     node_index |-> 0, has_node |-> FALSE, out |-> << >>, steps |-> 0]

\* BVH::traverse_iterator: the iterator before its first step
IterStart(ns, sh, q) ==
    [phase      |-> "running",
     q          |-> q,
     stack      |-> << >>,
     node_index |-> 0,
     has_node   |-> IF Len0(ns) = 0 THEN FALSE
                    ELSE IF IsLeaf(ns[0]) THEN RootLeaf(ns, sh, q) # << >>
                    ELSE TRUE,
     out        |-> << >>,
     steps      |-> 0]

\* a pop that leaves a yielded leaf on the stack
IterStepKeepLeaf(ns, it) ==
    IF it.stack = << >> /\ ~it.has_node
    THEN [it EXCEPT !.phase = "done"]
    ELSE IF it.has_node
    THEN [it EXCEPT !.stack = Append(it.stack, it.node_index),
                    !.has_node = FALSE, !.steps = @ + 1]
    ELSE [it EXCEPT !.out = Append(@, it.stack[Len(it.stack)]),
                    !.steps = @ + 1]

\* one turn of the iterator's loop: with a node in hand push it and move to
\* its left child; otherwise pop, yield a leaf or move to the right child
IterStep(ns, it) ==
    IF it.stack = << >> /\ ~it.has_node
    THEN [it EXCEPT !.phase = "done"]
    ELSE IF it.has_node
    THEN LET n == ns[it.node_index]
             pushed == Append(it.stack, it.node_index)
         IN  IF ~IsLeaf(n) /\ QIntersects(it.q, n.aabb_l)
             THEN [it EXCEPT !.stack = pushed, !.node_index = n.child_l,
                             !.steps = @ + 1]
             ELSE [it EXCEPT !.stack = pushed, !.has_node = FALSE,
                             !.steps = @ + 1]
    ELSE LET top == it.stack[Len(it.stack)]
             popped == SubSeq(it.stack, 1, Len(it.stack) - 1)
             n == ns[top]
         IN  IF IsLeaf(n)
             THEN [it EXCEPT !.stack = popped, !.node_index = top,
                             !.out = Append(@, n.shape_index),
                             !.steps = @ + 1]
             ELSE IF QIntersects(it.q, n.aabb_r)
             THEN [it EXCEPT !.stack = popped, !.node_index = n.child_r,
                             !.has_node = TRUE, !.steps = @ + 1]
             ELSE [it EXCEPT !.stack = popped, !.node_index = top,
                             !.steps = @ + 1]

\* the caller asks for an iterator over the tree
traverse_iterator(q) ==
    /\ pc = "live"
    /\ iter.phase = "idle"
    /\ iter' = IterStart(nodes, boxes, q)
    /\ UNCHANGED treeVars
    /\ UNCHANGED rayVars

\* the loop of BVHTraverseIterator::next turns once
iterator_step ==
    /\ iter.phase = "running"
    /\ iter' = IterStep(nodes, iter)
    /\ UNCHANGED treeVars
    /\ UNCHANGED rayVars

\* the caller drops the iterator
iterator_drop ==
    /\ iter.phase # "idle"
    /\ iter' = NoIter
    /\ UNCHANGED treeVars
    /\ UNCHANGED rayVars

(***************************************************************************)
(* ray.rs: the three ray/AABB algorithms applied to one input.             *)
(***************************************************************************)
Coords == 0..CoordMax

Dirs == (-DirMax)..DirMax

Points == {<<x, y, z>> : x \in Coords, y \in Coords, z \in Coords}

\* every direction but the zero vector, which callers reject
Directions ==
    {<<x, y, z>> : x \in Dirs, y \in Dirs, z \in Dirs} \ {<<0, 0, 0>>}

\* every AABB with min <= max on every axis
Boxes ==
    {bx \in [min : Points, max : Points] :
        \A k \in Axes : bx.min[k] <= bx.max[k]}

NoRay == [origin |-> <<0, 0, 0>>, dir |-> <<1, 0, 0>>,
          aabb |-> with_bounds(<<0, 0, 0>>, <<0, 0, 0>>)]

\* no algorithm has run yet
NoOut == [done |-> FALSE, slab |-> FALSE, naive |-> FALSE,
          branchless |-> FALSE]

Intersect ==
    /\ ~rayOut.done
    /\ LET r == RayNew(rayIn.origin, rayIn.dir)
       IN  rayOut' = [done       |-> TRUE,
                      slab       |-> intersects_aabb(r, rayIn.aabb),
                      naive      |-> intersects_aabb_naive(r, rayIn.aabb),
                      branchless |-> intersects_aabb_branchless(r, rayIn.aabb)]
    /\ UNCHANGED <<rayIn, aim, aimOut, iter, hits>>
    /\ UNCHANGED treeVars

(***************************************************************************)
(* ray.rs tests: a ray built toward the centre of an AABB.                 *)
(***************************************************************************)
\* the largest coordinate of the test data, in steps of two
AimMax == 2

\* the coordinates of the test data: even, so that the centre of an AABB
\* between two of them is a whole number
AimCoords == {2 * x : x \in 0..AimMax}

AimPoints == {<<x, y, z>> : x \in AimCoords, y \in AimCoords, z \in AimCoords}

\* gen_ray_to_aabb: the AABB grown from nothing by two points and the ray
\* from the third point toward the AABB's centre
gen_ray_to_aabb(data) ==
    LET aabb == grow(grow(AABBEmpty, data[1]), data[2])
        c    == AABBCenter(aabb)
        pos  == data[3]
    IN  [ray  |-> RayNew(pos, [k \in Axes |-> c[k] - pos[k]]),
         aabb |-> aabb]

\* an inversion that forgets the cached reciprocal
InvertRayDirectionOnly(r) ==
    [r EXCEPT !.direction = [k \in Axes |-> -r.direction[k]]]

\* ray.direction = -ray.direction; ray.inv_direction = -ray.inv_direction;
\* the sign bits stay as Ray::new set them
InvertRay(r) ==
    [r EXCEPT !.direction = [k \in Axes |-> -r.direction[k]],
              !.inv_direction = [k \in Axes |-> NegRecip(r.inv_direction[k])]]

\* what the three algorithms say of ray r and an AABB
Verdicts(kind, r, aabb) ==
    [done       |-> kind,
     ray        |-> r,
     aabb       |-> aabb,
     slab       |-> intersects_aabb(r, aabb),
     naive      |-> intersects_aabb_naive(r, aabb),
     branchless |-> intersects_aabb_branchless(r, aabb),
     inside     |-> AABBContainsPoint(aabb, r.origin)]

NoAim == <<<<0, 0, 0>>, <<0, 0, 0>>, <<0, 0, 0>>>>

NoVerdicts ==
    Verdicts("none", RayNew(<<0, 0, 0>>, <<1, 0, 0>>),
             with_bounds(<<0, 0, 0>>, <<0, 0, 0>>))

\* test_ray_points_at_aabb_center, _naive and _branchless
PointsAtCenter ==
    /\ aimOut.done = "none"
    /\ LET g == gen_ray_to_aabb(aim)
       IN  aimOut' = Verdicts("at", g.ray, g.aabb)
    /\ UNCHANGED <<aim, rayIn, rayOut, iter, hits>>
    /\ UNCHANGED treeVars

\* test_ray_points_from_aabb_center, _naive and _branchless
PointsFromCenter ==
    /\ aimOut.done = "none"
    /\ LET g == gen_ray_to_aabb(aim)
       IN  aimOut' = Verdicts("from", InvertRay(g.ray), g.aabb)
    /\ UNCHANGED <<aim, rayIn, rayOut, iter, hits>>
    /\ UNCHANGED treeVars

(***************************************************************************)
(* Ray::intersects_triangle (ray.rs 293-348) and its test.                 *)
(* Points are whole multiples of 1 / TriUnit.  The ray's direction is kept *)
(* unnormalised, as in RayNew, so that the code's direction is             *)
(* direction / sqrt(len2) with len2 = direction . direction; every value   *)
(* the code compares is then a rational times a power of sqrt(len2), and   *)
(* the comparisons are made exactly.                                       *)
(***************************************************************************)
\* EPSILON = 0.00001 = 1 / EpsilonInv
EpsilonInv == 100000

\* the grid of the triangle test's coordinates: multiples of 1 / TriUnit
TriUnit == 320

\* the largest coordinate of the triangle test's data, in grid steps
TriMax == 1

\* the test's u and v are multiples of 1 / UVSteps
UVSteps == 4

RECURSIVE Gcd(_, _)
Gcd(m, n) == IF n = 0 THEN m ELSE Gcd(n, m % n)

Sub3(p, q) == [k \in Axes |-> p[k] - q[k]]

dot(p, q) == p[1] * q[1] + p[2] * q[2] + p[3] * q[3]

cross(p, q) ==
    <<p[2] * q[3] - p[3] * q[2],
      p[3] * q[1] - p[1] * q[3],
      p[1] * q[2] - p[2] * q[1]>>

\* (n / d) * sqrt(len2) * (p / q) > 1 for n, d, p, q > 0, with the fraction
\* reduced before it is squared
RootProductAboveOne(n, d, len2, p, q) ==
    LET g1 == Gcd(n, d)
        g2 == Gcd(p, q)
        n1 == n \div g1
        d1 == d \div g1
        p1 == p \div g2
        q1 == q \div g2
        g3 == Gcd(n1, q1)
        g4 == Gcd(p1, d1)
        num == (n1 \div g3) * (p1 \div g4)
        den == (d1 \div g4) * (q1 \div g3)
    IN  num * num * len2 > den * den

\* det < EPSILON, where det = det_s / (sqrt(len2) * TriUnit^2)
DetBelowEpsilon(det_s, len2) ==
    \/ det_s <= 0
    \/ RootProductAboveOne(TriUnit * TriUnit, EpsilonInv, len2, 1, det_s)

\* dist > EPSILON, where dist = (dist_n / det_s) * sqrt(len2) / TriUnit
DistAboveEpsilon(dist_n, det_s, len2) ==
    /\ dist_n > 0
    /\ RootProductAboveOne(dist_n, det_s, len2, EpsilonInv, TriUnit)

\* a fraction n / d; d = 0 stands for NaN
Frac(n, d) == [n |-> n, d |-> d]

\* a distance (n / d) * sqrt(len2) / TriUnit, or +infinity
Distance(n, d, len2) == [inf |-> FALSE, n |-> n, d |-> d, len2 |-> len2]

INFINITY == [inf |-> TRUE, n |-> 0, d |-> 1, len2 |-> 0]

Miss(u, v) == [distance |-> INFINITY, u |-> u, v |-> v]

\* Ray::intersects_triangle: Moeller-Trumbore with backface culling
intersects_triangle(r, a, b, c) ==
    LET a_to_b      == Sub3(b, a)
        a_to_c      == Sub3(c, a)
        len2        == dot(r.direction, r.direction)
        u_vec       == cross(r.direction, a_to_c)
        det_s       == dot(a_to_b, u_vec)
        a_to_origin == Sub3(r.origin, a)
        u_n         == dot(a_to_origin, u_vec)
        v_vec       == cross(a_to_origin, a_to_b)
        v_n         == dot(r.direction, v_vec)
        dist_n      == dot(a_to_c, v_vec)
    IN  IF len2 = 0
        THEN \* a NaN direction: det < EPSILON is false, u is NaN and the
             \* range test on u rejects
             Miss(Frac(0, 0), Frac(0, 1))
        ELSE IF DetBelowEpsilon(det_s, len2) THEN Miss(Frac(0, 1), Frac(0, 1))
        ELSE IF u_n < 0 \/ u_n > det_s THEN Miss(Frac(u_n, det_s), Frac(0, 1))
        ELSE IF v_n < 0 \/ u_n + v_n > det_s
             THEN Miss(Frac(u_n, det_s), Frac(v_n, det_s))
        ELSE IF DistAboveEpsilon(dist_n, det_s, len2)
             THEN [distance |-> Distance(dist_n, det_s, len2),
                   u |-> Frac(u_n, det_s), v |-> Frac(v_n, det_s)]
             ELSE Miss(Frac(u_n, det_s), Frac(v_n, det_s))

\* the data of test_ray_hits_triangle: a triangle, an origin, and u, v in
\* steps of 1 / UVSteps with u + v <= 1
TriCoords == 0..TriMax

TriPoints == {<<x, y, z>> : x \in TriCoords, y \in TriCoords, z \in TriCoords}

TriData ==
    {[a |-> a, b |-> b, c |-> c, origin |-> o, u |-> u, v |-> Min2(UVSteps - u, v)] :
        a \in TriPoints, b \in TriPoints, c \in TriPoints, o \in TriPoints,
        u \in 0..UVSteps, v \in 0..UVSteps}

\* |n / UVSteps| < EPSILON
WithinEpsilon(n) == Abs(n) * EpsilonInv < UVSteps

\* the determinant of intersects_triangle for ray r, times sqrt(len2) * TriUnit^2
TriDet(r, a, b, c) == dot(Sub3(b, a), cross(r.direction, Sub3(c, a)))

\* test_ray_hits_triangle up to its assertions
HitsTriangle ==
    /\ aimOut.done = "none"
    /\ LET a      == aim.a
           u_vec  == Sub3(aim.b, a)
           v_vec  == Sub3(aim.c, a)
           normal == cross(u_vec, v_vec)
           \* UVSteps * (point_on_triangle - origin)
           toward == [k \in Axes |-> UVSteps * (a[k] - aim.origin[k])
                                       + aim.u * u_vec[k] + aim.v * v_vec[k]]
           ray    == RayNew(aim.origin, toward)
       IN  aimOut' =
             [done            |-> "tri",
              ray             |-> ray,
              on_back_side    |-> dot(normal, Sub3(ray.origin, a)) <= 0,
              intersects      |-> intersects_triangle(ray, a, aim.b, aim.c),
              close_to_border |-> \/ WithinEpsilon(aim.u)
                                  \/ WithinEpsilon(aim.u - UVSteps)
                                  \/ WithinEpsilon(aim.v)
                                  \/ WithinEpsilon(aim.v - UVSteps)
                                  \/ WithinEpsilon(aim.u + aim.v - UVSteps)]
    /\ UNCHANGED <<aim, rayIn, rayOut, iter, hits>>
    /\ UNCHANGED treeVars

(***************************************************************************)
(* Specifications.                                                         *)
(***************************************************************************)
\* before build_bvh: the caller's array of n shapes and no tree
TreeInit(n) ==
    /\ pc = "new"
    /\ \E scene \in Scenes :
          boxes = [i \in 0..(n - 1) |-> SceneShape(scene, i)]
    /\ nodes = Empty0
    /\ vec = [ptr |-> 0, cap |-> 0]
    /\ bvhRef = [ptr |-> 0, len |-> 0, cap |-> 0]
    /\ members = {}
    /\ call = [op |-> "none"]
    /\ trip = [stage |-> "none", shape |-> 0]
    /\ res = FreshRes
    /\ ret = 0
    /\ iter = NoIter
    /\ hits = FreshHits

RayIdle ==
    /\ rayIn = NoRay
    /\ rayOut = NoOut
    /\ aim = NoAim
    /\ aimOut = NoVerdicts

\* the whole interface over an array of NumShapes shapes
Init ==
    /\ TreeInit(NumShapes)
    /\ RayIdle

Next ==
    \/ \E count \in 0..Len0(boxes) : build_bvh(count)
    \/ \E s \in DOMAIN boxes : add_node(s)
    \/ \E s \in DOMAIN boxes : remove_node(s)
    \/ \E q \in RayArgs, m \in 0..MaxRes : query_ray(q, m)
    \/ \E q \in SphereArgs, m \in 0..MaxRes : query_sphere(q, m)
    \/ \E q \in CapsuleArgs, m \in 0..MaxRes : query_capsule(q, m)
    \/ \E q \in AabbArgs, m \in 0..MaxRes : query_aabb(q, m)
    \/ \E q \in ObbArgs, m \in 0..MaxRes : query_obb(q, m)

Spec == Init /\ [][Next]_vars

\* build and mutation alone over an array of DeepShapes shapes
TreeSpecInit ==
    /\ TreeInit(DeepShapes)
    /\ RayIdle

TreeNext ==
    \/ \E count \in 0..Len0(boxes) : build_bvh(count)
    \/ \E s \in DOMAIN boxes : add_node(s)
    \/ \E s \in DOMAIN boxes : remove_node(s)

TreeSpec == TreeSpecInit /\ [][TreeNext]_vars

\* the ray/AABB algorithms on every input of the bounded sets
RayInit ==
    /\ pc = "new"
    /\ boxes = Empty0
    /\ nodes = Empty0
    /\ vec = [ptr |-> 0, cap |-> 0]
    /\ bvhRef = [ptr |-> 0, len |-> 0, cap |-> 0]
    /\ members = {}
    /\ call = [op |-> "none"]
    /\ trip = [stage |-> "none", shape |-> 0]
    /\ res = FreshRes
    /\ ret = 0
    /\ iter = NoIter
    /\ hits = FreshHits
    /\ \E o \in Points, d \in Directions, bx \in Boxes :
          rayIn = [origin |-> o, dir |-> d, aabb |-> bx]
    /\ rayOut = NoOut
    /\ aim = NoAim
    /\ aimOut = NoVerdicts

RayNext == Intersect

RaySpec == RayInit /\ [][RayNext]_vars

\* the tests of ray.rs that aim a ray at an AABB's centre
AimInit ==
    /\ TreeInit(0)
    /\ rayIn = NoRay
    /\ rayOut = NoOut
    /\ aim \in AimPoints \X AimPoints \X AimPoints
    /\ aimOut = NoVerdicts

AimNext ==
    \/ PointsAtCenter
    \/ PointsFromCenter

AimSpec == AimInit /\ [][AimNext]_vars

\* the test of ray.rs that aims a ray at a point of a triangle
TriInit ==
    /\ TreeInit(0)
    /\ rayIn = NoRay
    /\ rayOut = NoOut
    /\ aim \in TriData
    /\ aimOut = NoVerdicts

TriNext == HitsTriangle

TriSpec == TriInit /\ [][TriNext]_vars

\* trees of up to DeepShapes shapes, built and grown, and iterators over
\* them; the tree is not changed while an iterator exists
IterInit ==
    /\ TreeInit(DeepShapes)
    /\ RayIdle

IterNext ==
    \/ \E count \in 0..Len0(boxes) : build_bvh(count)
    \/ iter.phase = "idle" /\ \E s \in DOMAIN boxes : add_node(s)
    \/ \E q \in Queries : traverse_iterator(q)
    \/ iterator_step
    \/ iterator_drop

IterSpec == IterInit /\ [][IterNext]_vars

\* the ray batches of up to MaxRays rays
RayBatches ==
    UNION {[1..n -> BatchRays] : n \in 0..MaxRays}

\* the interface with batches of rays and free_bvh; the single queries
\* with the largest max_res alone
FfiInit ==
    /\ TreeInit(NumShapes)
    /\ RayIdle

FfiNext ==
    \/ \E count \in 0..Len0(boxes) : build_bvh(count)
    \/ \E s \in DOMAIN boxes : add_node(s)
    \/ \E s \in DOMAIN boxes : remove_node(s)
    \/ \E q \in RayArgs : query_ray(q, MaxRes)
    \/ \E q \in SphereArgs : query_sphere(q, MaxRes)
    \/ \E q \in CapsuleArgs : query_capsule(q, MaxRes)
    \/ \E q \in AabbArgs : query_aabb(q, MaxRes)
    \/ \E q \in ObbArgs : query_obb(q, MaxRes)
    \/ \E rays \in RayBatches, m \in 0..MaxRes : batch_query_rays(rays, m)
    \/ free_bvh

FfiSpec == FfiInit /\ [][FfiNext]_vars

(***************************************************************************)
(* Reading a tree.                                                         *)
(***************************************************************************)
InternalNodes == {i \in DOMAIN nodes : ~IsLeaf(nodes[i])}

LeafNodes == {i \in DOMAIN nodes : IsLeaf(nodes[i])}

\* the nodes at most `fuel` child links below node i, node i included
RECURSIVE Below(_, _, _)
Below(ns, i, fuel) ==
    IF i \notin DOMAIN ns THEN {}
    ELSE IF IsLeaf(ns[i]) \/ fuel = 0 THEN {i}
    ELSE {i} \cup Below(ns, ns[i].child_l, fuel - 1)
             \cup Below(ns, ns[i].child_r, fuel - 1)

\* the shapes of the leaves in the subtree at node i
SubtreeShapes(ns, i) ==
    {ns[j].shape_index : j \in {k \in Below(ns, i, Len0(ns)) : IsLeaf(ns[k])}}

\* following parent from node i reaches index 0 without a revisit
RECURSIVE ClimbsToRoot(_, _, _)
ClimbsToRoot(ns, i, seen) ==
    IF i = 0 THEN TRUE
    ELSE IF i \in seen \/ ns[i].parent \notin DOMAIN ns THEN FALSE
    ELSE ClimbsToRoot(ns, ns[i].parent, seen \cup {i})

\* the shapes whose AABB the query shape intersects, one by one
BruteForce(q) ==
    {p \in members : QIntersects(q, ShapeAABB(boxes[p]))}

IsQuery(op) ==
    op \in {"query_ray", "query_sphere", "query_capsule", "query_aabb",
            "query_obb"}

C2_Containment ==
    \A i \in InternalNodes :
        /\ \A p \in SubtreeShapes(nodes, nodes[i].child_l) :
              AABBContains(nodes[i].aabb_l, ShapeAABB(boxes[p]))
        /\ \A p \in SubtreeShapes(nodes, nodes[i].child_r) :
              AABBContains(nodes[i].aabb_r, ShapeAABB(boxes[p]))

\* after a remove_node, an internal node with an internal child
C2_Witness ==
    /\ call.op = "remove_node"
    /\ \E i \in InternalNodes : nodes[i].child_l \in InternalNodes
    /\ C2_Containment

(***************************************************************************)
(* C3.  Cross-reference: for every shape in the tree the node at its       *)
(* node index is a leaf whose shape_index is the shape's position, and     *)
(* every leaf's shape_index names a shape whose node index is the leaf's   *)
(* position.                                                               *)
(***************************************************************************)
C3_CrossReference ==
    /\ \A p \in members :
          /\ bh_node_index(boxes[p]) \in LeafNodes
          /\ nodes[bh_node_index(boxes[p])].shape_index = p
    /\ \A i \in LeafNodes :
          /\ nodes[i].shape_index \in DOMAIN boxes
          /\ bh_node_index(boxes[nodes[i].shape_index]) = i

\* after a remove_node that moved a tail leaf into a freed slot: some
\* shape's leaf is not where build or add_node had put it
C3_Witness ==
    /\ call.op = "remove_node"
    /\ Cardinality(members) >= 2
    /\ \E p \in members : bh_node_index(boxes[p]) < Len0(nodes) - 1
    /\ C3_CrossReference

(***************************************************************************)
(* C4.  Node count: the node array holds 2n - 1 nodes when the tree has    *)
(* n >= 1 leaves and none when it has no leaf; the leaves are as many as   *)
(* the shapes in the tree.                                                 *)
(***************************************************************************)
C4_NodeCount ==
    /\ Cardinality(LeafNodes) = Cardinality(members)
    /\ Len0(nodes) = IF Cardinality(LeafNodes) = 0
                     THEN 0
                     ELSE 2 * Cardinality(LeafNodes) - 1

\* after a remove_node that left two leaves
C4_Witness ==
    /\ call.op = "remove_node"
    /\ Cardinality(LeafNodes) = 2
    /\ Len0(nodes) = 3

(***************************************************************************)
(* C5.  Parent links: from every node, following parent reaches index 0    *)
(* without a revisit; the children of an internal node are two nodes       *)
(* whose parent field is that node; every node is reachable from index 0.  *)
(***************************************************************************)
C5_ParentLinks ==
    /\ \A i \in DOMAIN nodes : ClimbsToRoot(nodes, i, {})
    /\ 0 \in DOMAIN nodes => nodes[0].parent = 0
    /\ \A i \in InternalNodes :
          /\ nodes[i].child_l \in DOMAIN nodes
          /\ nodes[i].child_r \in DOMAIN nodes
          /\ nodes[i].child_l # nodes[i].child_r
          /\ nodes[nodes[i].child_l].parent = i
          /\ nodes[nodes[i].child_r].parent = i
    /\ Below(nodes, 0, Len0(nodes)) = DOMAIN nodes

\* after a remove_node, a tree with a node two links below the root
C5_Witness ==
    /\ call.op = "remove_node"
    /\ \E i \in DOMAIN nodes :
          /\ nodes[i].parent # 0
          /\ ClimbsToRoot(nodes, i, {})
    /\ C5_ParentLinks

C7_ResultBuffer ==
    IsQuery(call.op) =>
        LET seq == TraverseIterator(nodes, boxes, call.q)
            m   == Cardinality(BruteForce(call.q))
        IN  /\ ret = m
            /\ Len(seq) = m
            /\ \A j \in DOMAIN res :
                  IF j < Min2(m, call.max_res)
                  THEN res[j] = boxes[seq[j + 1]]
                  ELSE res[j] = NoShape

\* a query with more matches than max_res, and max_res not 0
C7_Witness ==
    /\ IsQuery(call.op)
    /\ call.max_res > 0
    /\ ret > call.max_res
    /\ res[call.max_res - 1] # NoShape
    /\ res[call.max_res] = NoShape

(***************************************************************************)
(* C8.  Handle propagation: the BVHRef that build_bvh, add_node and        *)
(* remove_node return holds the pointer, length and capacity of the node   *)
(* array as the call left it, so the caller who keeps the returned handle  *)
(* always holds the live array, also after a reallocation.                 *)
(***************************************************************************)
C8_HandleLive ==
    pc = "live" =>
        /\ bvhRef.ptr = vec.ptr
        /\ bvhRef.len = Len0(nodes)
        /\ bvhRef.cap = vec.cap
        /\ bvhRef.len <= bvhRef.cap

\* after an add_node that reallocated an array build had allocated
C8_Witness ==
    /\ call.op = "add_node"
    /\ vec.ptr > 1
    /\ bvhRef.ptr = vec.ptr
    /\ bvhRef.len = Len0(nodes)

(***************************************************************************)
(* C9.  Empty tree: build of no shapes gives an empty node array; on an    *)
(* empty tree every query finds nothing, returns 0 and writes nothing;     *)
(* add_node on an empty tree makes one Leaf at index 0 with parent 0 and   *)
(* sets the shape's node index to 0, and a ray through the shape's AABB    *)
(* then returns that shape and no other.                                   *)
(***************************************************************************)
C9_EmptyTree ==
    /\ (call.op = "build_bvh" /\ members = {}) => Len0(nodes) = 0
    /\ (pc = "live" /\ Len0(nodes) = 0) =>
          /\ \A q \in Queries :
                /\ Traverse(nodes, boxes, q) = << >>
                /\ TraverseIterator(nodes, boxes, q) = << >>
          /\ IsQuery(call.op) => (ret = 0 /\ res = FreshRes)
    /\ (call.op = "add_node" /\ Cardinality(members) = 1) =>
          \A p \in members :
             /\ nodes = Push0(Empty0, Leaf(0, p))
             /\ bh_node_index(boxes[p]) = 0
             /\ \A q \in RayQueries :
                   QIntersects(q, ShapeAABB(boxes[p])) =>
                      /\ Traverse(nodes, boxes, q) = << p >>
                      /\ TraverseIterator(nodes, boxes, q) = << p >>
    /\ (call.op = "query_ray" /\ Len0(nodes) = 1) =>
          \A p \in members :
             QIntersects(call.q, ShapeAABB(boxes[p])) =>
                 (ret = 1 /\ (call.max_res > 0 => res[0] = boxes[p]))

\* a ray query that found the one shape add_node had put in an empty tree
C9_Witness ==
    /\ call.op = "query_ray"
    /\ Len0(nodes) = 1
    /\ bvhRef.cap = 4
    /\ ret = 1
    /\ call.max_res > 0
    /\ res[0] # NoShape

(***************************************************************************)
(* C10.  Ray/AABB algorithm equivalence: for every ray and every AABB with *)
(* min <= max on every axis, intersects_aabb, intersects_aabb_naive and    *)
(* intersects_aabb_branchless return the same boolean.                     *)
(***************************************************************************)
C10_AlgorithmsAgree ==
    rayOut.done =>
        /\ rayOut.slab = rayOut.naive
        /\ rayOut.naive = rayOut.branchless

(***************************************************************************)
(* C11.  A ray pointing at an AABB's centre hits it: for every AABB grown  *)
(* from the empty AABB by two points and every origin other than the       *)
(* centre, intersects_aabb, intersects_aabb_naive and                      *)
(* intersects_aabb_branchless all accept Ray::new(origin, centre - origin).*)
(***************************************************************************)
C11_PointsAtCenterHits ==
    (aimOut.done = "at" /\ aimOut.ray.origin # AABBCenter(aimOut.aabb)) =>
        /\ aimOut.slab
        /\ aimOut.naive
        /\ aimOut.branchless

(***************************************************************************)
(* C12.  A ray pointing away from an AABB's centre misses it unless it     *)
(* starts inside: with the direction and inv_direction of the ray toward   *)
(* the centre negated and the sign bits left as constructed, each of the   *)
(* three algorithms returns false when the AABB does not contain the       *)
(* origin.                                                                 *)
(***************************************************************************)
C12_PointsFromCenterMisses ==
    (aimOut.done = "from" /\ ~aimOut.inside) =>
        /\ ~aimOut.slab
        /\ ~aimOut.naive
        /\ ~aimOut.branchless

\* an inverted ray from outside an AABB of positive extent on every axis,
\* with a direction that has a zero component and a negative one
C12_Witness ==
    /\ aimOut.done = "from"
    /\ ~aimOut.inside
    /\ \A k \in Axes : aimOut.aabb.min[k] < aimOut.aabb.max[k]
    /\ \E k \in Axes : aimOut.ray.direction[k] = 0
    /\ aimOut.ray.sign_x + aimOut.ray.sign_y + aimOut.ray.sign_z > 0
    /\ ~aimOut.slab /\ ~aimOut.naive /\ ~aimOut.branchless

(***************************************************************************)
(* C13: intersects_triangle returns distance = +infinity whenever the      *)
(* determinant is below EPSILON; and for a ray from an origin on the front *)
(* side aimed at a point a + u (b - a) + v (c - a) of the triangle, with   *)
(* u, v >= 0, u + v <= 1 and none of u, v, u + v within EPSILON of the     *)
(* border, it returns a finite distance above EPSILON and u, v with        *)
(* 0 <= u + v <= 1.                                                        *)
(***************************************************************************)
C13_TriangleHit ==
    aimOut.done = "tri" =>
        LET r   == aimOut.ray
            hit == aimOut.intersects
            len2 == dot(r.direction, r.direction)
        IN  /\ (len2 # 0 /\ DetBelowEpsilon(TriDet(r, aim.a, aim.b, aim.c), len2))
                    => hit.distance.inf
            /\ (~aimOut.on_back_side /\ ~aimOut.close_to_border) =>
                    /\ ~hit.distance.inf
                    /\ DistAboveEpsilon(hit.distance.n, hit.distance.d, hit.distance.len2)
                    /\ hit.u.n + hit.v.n >= 0
                    /\ hit.u.n + hit.v.n <= hit.u.d

(***************************************************************************)
(* Reading a removal.                                                      *)
(***************************************************************************)
\* the other child of the parent of node li
Sibling(ns, li) ==
    LET p == ns[li].parent
    IN  IF ns[p].child_l = li THEN ns[p].child_r ELSE ns[p].child_l

(***************************************************************************)
(* C14.  remove_node on small trees: removing the only leaf leaves an      *)
(* empty node array; removing either leaf of a two-leaf tree leaves one    *)
(* node, a leaf at index 0 with parent 0 whose shape has node index 0;     *)
(* removing a leaf that is a child of the root of a tree of three or more  *)
(* leaves makes the sibling's subtree the root at index 0, with parent     *)
(* links, child indices and node indices consistent.                       *)
(***************************************************************************)
C14_RemoveSmall ==
    [][(call'.op = "remove_node" /\ members' # members) =>
          LET s  == CHOOSE x \in members : x \notin members'
              li == bh_node_index(boxes[s])
              n  == Cardinality(members)
          IN  /\ n = 1 => nodes' = Empty0
              /\ n = 2 =>
                    /\ Len0(nodes') = 1
                    /\ IsLeaf(nodes'[0])
                    /\ nodes'[0].parent = 0
                    /\ {nodes'[0].shape_index} = members \ {s}
                    /\ bh_node_index(boxes'[nodes'[0].shape_index]) = 0
              /\ (n >= 3 /\ nodes[li].parent = 0) =>
                    /\ ~IsLeaf(nodes'[0])
                    /\ nodes'[0].parent = 0
                    /\ SubtreeShapes(nodes', 0)
                          = SubtreeShapes(nodes, Sibling(nodes, li))
                    /\ SubtreeShapes(nodes', 0) = members \ {s}
                    /\ C3_CrossReference'
                    /\ C4_NodeCount'
                    /\ C5_ParentLinks']_vars

\* a tree built of three or more shapes from which a child of the root has
\* just been removed
C14_Witness ==
    /\ call.op = "remove_node"
    /\ \E count \in 3..Len0(boxes) : \E s \in 0..(count - 1) :
          LET b  == BVHBuild(boxes, count)
              li == bh_node_index(b.shapes[s])
              r  == BVHRemoveNode(b.nodes, b.shapes, s)
          IN  /\ members = (0..(count - 1)) \ {s}
              /\ b.nodes[li].parent = 0
              /\ nodes = r.nodes
              /\ boxes = r.shapes
              /\ ~IsLeaf(nodes[0])

(***************************************************************************)
(* The depth of a tree.                                                    *)
(***************************************************************************)
RECURSIVE Height(_, _)
Height(ns, i) ==
    IF IsLeaf(ns[i]) THEN 1
    ELSE 1 + Max2(Height(ns, ns[i].child_l), Height(ns, ns[i].child_r))

Depth(ns) == IF Len0(ns) = 0 THEN 0 ELSE Height(ns, 0)

LeafShapes(ns) == {ns[i].shape_index : i \in {j \in DOMAIN ns : IsLeaf(ns[j])}}

NumLeaves(ns) == Cardinality({j \in DOMAIN ns : IsLeaf(ns[j])})

AddStep == call'.op = "add_node" /\ members' # members

RemoveStep == call'.op = "remove_node" /\ members' # members

\* the shape an add_node step added, or a remove_node step removed
Added == CHOOSE x \in members' : x \notin members

Removed == CHOOSE x \in members : x \notin members'

\* the leaf add_node chooses for the shape it adds
ChosenLeaf == ChooseLeaf(nodes, 0, ShapeAABB(boxes[Added]))

Children(n) == {n.child_l, n.child_r}

\* leaves reference X with s, each once
AddLeafSet ==
    /\ LeafShapes(nodes') = members \cup {Added}
    /\ NumLeaves(nodes') = Cardinality(members) + 1

\* leaves reference X without s, each once
RemoveLeafSet ==
    /\ LeafShapes(nodes') = members \ {Removed}
    /\ NumLeaves(nodes') = Cardinality(members) - 1

\* on add_node only the chosen leaf's shape gets a new node index, on
\* remove_node only shapes whose leaf was in the two tail slots or was the
\* sibling that became the root
IndexChanges ==
    /\ (AddStep /\ Len0(nodes) > 0) =>
          \A t \in members :
              bh_node_index(boxes'[t]) # bh_node_index(boxes[t])
                  => t = nodes[ChosenLeaf].shape_index
    /\ RemoveStep =>
          LET li   == bh_node_index(boxes[Removed])
              last == Len0(nodes) - 1
          IN  \A t \in members \ {Removed} :
                  bh_node_index(boxes'[t]) # bh_node_index(boxes[t]) =>
                      \/ bh_node_index(boxes[t]) \in {last, last - 1}
                      \/ /\ nodes[li].parent = 0
                         /\ bh_node_index(boxes[t]) = Sibling(nodes, li)
    /\ (AddStep \/ RemoveStep) =>
          \A t \in DOMAIN boxes :
              (t \notin members /\ t \notin members') => boxes'[t] = boxes[t]

\* the old leaf and the new leaf sit in the two new tail slots
Relocated ==
    LET n == Len0(nodes)
    IN  /\ nodes'[n].kind = "Leaf"
        /\ nodes'[n].shape_index = nodes[ChosenLeaf].shape_index
        /\ nodes'[n + 1].kind = "Leaf"
        /\ nodes'[n + 1].shape_index = Added
        /\ bh_node_index(boxes'[nodes[ChosenLeaf].shape_index]) = n
        /\ bh_node_index(boxes'[Added]) = n + 1

(***************************************************************************)
(* C17.  The leaf set under mutation.  As claimed: add_node(s) on a tree   *)
(* whose leaves reference the shapes X yields leaves referencing exactly   *)
(* X with s, each once, and the chosen leaf's old slot is an internal node *)
(* whose two children are the relocated old leaf and the new leaf;         *)
(* remove_node(s) yields leaves referencing exactly X without s; the only  *)
(* shapes whose node index changes are s and the shapes whose leaves a     *)
(* tail swap relocated (rotations move no node).                           *)
(***************************************************************************)
C17_ChosenSlotKeepsBoth ==
    [][/\ AddStep => AddLeafSet
       /\ (AddStep /\ Len0(nodes) > 0) =>
             /\ ~IsLeaf(nodes'[ChosenLeaf])
             /\ Relocated
             /\ Children(nodes'[ChosenLeaf]) = {Len0(nodes), Len0(nodes) + 1}
       /\ RemoveStep => RemoveLeafSet
       /\ IndexChanges]_vars

(***************************************************************************)
(* C17 as amended.  add_node(s) yields leaves referencing exactly X with   *)
(* s, each once; the relocated old leaf and the new leaf are the children  *)
(* of the chosen slot unless a rotation at its parent exchanged one of     *)
(* them with the slot's sibling; remove_node(s) yields leaves referencing  *)
(* exactly X without s; node indices change only for s and for the shapes  *)
(* whose leaves a tail swap relocated.                                     *)
(***************************************************************************)
C17_LeafSet ==
    [][/\ AddStep => AddLeafSet
       /\ (AddStep /\ Len0(nodes) = 0) =>
             /\ nodes' = Push0(Empty0, Leaf(0, Added))
             /\ bh_node_index(boxes'[Added]) = 0
       /\ (AddStep /\ Len0(nodes) > 0) =>
             LET n    == Len0(nodes)
                 kids == Children(nodes'[ChosenLeaf])
             IN  /\ ~IsLeaf(nodes'[ChosenLeaf])
                 /\ Relocated
                 /\ \/ kids = {n, n + 1}
                    \/ /\ ChosenLeaf # 0
                       /\ \E g \in {n, n + 1} :
                             kids = ({n, n + 1} \ {g})
                                      \cup {Sibling(nodes, ChosenLeaf)}
       /\ RemoveStep => RemoveLeafSet
       /\ IndexChanges]_vars

\* a built tree from which a shape was removed and put back by add_node,
\* where a rotation has taken one of the two leaves from under the chosen
\* slot
C17_Witness ==
    /\ call.op = "add_node"
    /\ \E count \in 2..Len0(boxes) : \E s \in 0..(count - 1) :
          LET b  == BVHBuild(boxes, count)
              r1 == BVHRemoveNode(b.nodes, b.shapes, s)
              li == ChooseLeaf(r1.nodes, 0, ShapeAABB(boxes[s]))
              n  == Len0(r1.nodes)
              r2 == BVHAddNode(r1.nodes, r1.shapes, s)
          IN  /\ members = 0..(count - 1)
              /\ nodes = r2.nodes
              /\ boxes = r2.shapes
              /\ ~IsLeaf(nodes[li])
              /\ Children(nodes[li]) # {n, n + 1}
              /\ Children(nodes[li]) \cap {n, n + 1} # {}

(***************************************************************************)
(* Replaying the rebalancing pass.                                         *)
(***************************************************************************)
\* the tree before and after the rotation attempt at each node the pass
\* visits, from node i up to the root
RECURSIVE FixUpTrace(_, _, _)
FixUpTrace(ns, sh, i) ==
    Bind(Refit(ns, sh, i), LAMBDA fitted :
    Bind(TryRotate(fitted, i), LAMBDA done :
      <<[at |-> i, before |-> fitted, after |-> done]>>
        \o (IF i = 0 THEN << >> ELSE FixUpTrace(done, sh, done[i].parent))))

\* the stored child AABBs of node j contain the shapes below them
ContainedAt(ns, sh, j) ==
    /\ \A p \in SubtreeShapes(ns, ns[j].child_l) :
          AABBContains(ns[j].aabb_l, ShapeAABB(sh[p]))
    /\ \A p \in SubtreeShapes(ns, ns[j].child_r) :
          AABBContains(ns[j].aabb_r, ShapeAABB(sh[p]))

CrossReferenceOf(ns, sh) ==
    \A j \in DOMAIN ns :
        IsLeaf(ns[j]) => bh_node_index(sh[ns[j].shape_index]) = j

ParentLinksOf(ns) ==
    /\ \A j \in DOMAIN ns : ClimbsToRoot(ns, j, {})
    /\ ns[0].parent = 0
    /\ \A j \in DOMAIN ns :
          ~IsLeaf(ns[j]) =>
              /\ ns[j].child_l \in DOMAIN ns
              /\ ns[j].child_r \in DOMAIN ns
              /\ ns[j].child_l # ns[j].child_r
              /\ ns[ns[j].child_l].parent = j
              /\ ns[ns[j].child_r].parent = j
    /\ Below(ns, 0, Len0(ns)) = DOMAIN ns

\* what the claim says of one visit t of the pass
RotationRule(t, sh) ==
    t.after # t.before =>
        /\ RotCostNow(t.after, t.at) < RotCostNow(t.before, t.at)
        /\ \E k \in 1..Len(Rotations) :
              /\ RotApplicable(t.before, t.at, Rotations[k])
              /\ t.after = ApplyRotation(t.before, t.at, Rotations[k])
        /\ \A k \in 1..Len(Rotations) :
              RotApplicable(t.before, t.at, Rotations[k]) =>
                  RotCostNow(t.after, t.at)
                    <= RotCostNow(ApplyRotation(t.before, t.at, Rotations[k]),
                                  t.at)
        /\ DOMAIN t.after = DOMAIN t.before
        /\ \A j \in DOMAIN t.before :
              IsLeaf(t.before[j]) =>
                  /\ IsLeaf(t.after[j])
                  /\ t.after[j].shape_index = t.before[j].shape_index
        /\ SubtreeShapes(t.after, 0) = SubtreeShapes(t.before, 0)
        /\ SubtreeShapes(t.after, t.at) = SubtreeShapes(t.before, t.at)
        /\ \A j \in DOMAIN t.before :
              (~IsLeaf(t.before[j]) /\ ContainedAt(t.before, sh, j))
                  => ContainedAt(t.after, sh, j)
        /\ CrossReferenceOf(t.after, sh)
        /\ ParentLinksOf(t.after)

\* the visits of the pass of an add_node or remove_node step
PassOfStep ==
    IF AddStep
    THEN IF Len0(nodes) = 0 THEN << >>
         ELSE LET g == Graft(nodes, boxes, Added)
              IN  FixUpTrace(g.nodes, g.shapes, g.start)
    ELSE IF Len0(nodes) = 1 THEN << >>
         ELSE LET d == Detach(nodes, boxes, Removed)
              IN  FixUpTrace(d.nodes, d.shapes, d.start)

(***************************************************************************)
(* C18.  The rotation rule: in the rebalancing pass of add_node and of     *)
(* remove_node a rotation is applied at a node only if it strictly         *)
(* decreases the sum of the surface areas of the node's two child AABBs;   *)
(* the one applied is the candidate with the smallest sum; and it leaves   *)
(* the set of leaves as it was and keeps containment, cross-reference and  *)
(* parent links.                                                           *)
(***************************************************************************)
C18_RotationRule ==
    [][(AddStep \/ RemoveStep) =>
          \A tr \in {PassOfStep} :
              /\ \A k \in 1..Len(tr) : RotationRule(tr[k], boxes')
              /\ Len(tr) > 0 => tr[Len(tr)].after = nodes']_vars

\* a built tree from which a shape was removed and put back by add_node,
\* whose pass applied a rotation at a node with two or more candidates of
\* different sums
C18_Witness ==
    /\ call.op = "add_node"
    /\ \E count \in 2..Len0(boxes) : \E s \in 0..(count - 1) :
          LET b  == BVHBuild(boxes, count)
              r1 == BVHRemoveNode(b.nodes, b.shapes, s)
              g  == Graft(r1.nodes, r1.shapes, s)
              tr == FixUpTrace(g.nodes, g.shapes, g.start)
          IN  /\ members = 0..(count - 1)
              /\ boxes = g.shapes
              /\ nodes = tr[Len(tr)].after
              /\ \E k \in 1..Len(tr) :
                    /\ tr[k].after # tr[k].before
                    /\ \E a, c \in 1..Len(Rotations) :
                          /\ RotApplicable(tr[k].before, tr[k].at, Rotations[a])
                          /\ RotApplicable(tr[k].before, tr[k].at, Rotations[c])
                          /\ RotCostAfter(tr[k].before, tr[k].at, Rotations[a])
                               < RotCostAfter(tr[k].before, tr[k].at, Rotations[c])

(***************************************************************************)
(* C19.  Queries are read-only: a call of query_ray, batch_query_rays,     *)
(* query_sphere, query_capsule, query_aabb or query_obb leaves the node    *)
(* array's contents, its (ptr, len, cap), and every shape's bounds and     *)
(* node index as they were and does not free the node array, so the handle *)
(* the caller holds is still the live array for the next query.            *)
(***************************************************************************)
C19_QueriesReadOnly ==
    [][(IsQuery(call'.op) \/ call'.op = "batch_query_rays") =>
          /\ nodes' = nodes
          /\ vec' = vec
          /\ bvhRef' = bvhRef
          /\ boxes' = boxes
          /\ members' = members
          /\ pc' = "live"
          /\ RefLive(bvhRef)']_vars

\* after a query on an array that add_node had reallocated, with matches
C19_Witness ==
    /\ IsQuery(call.op)
    /\ ret > 0
    /\ vec.ptr > 1
    /\ Len0(nodes) >= 3
    /\ RefLive(bvhRef)

\* the matches of the rays of a batch, ray after ray
RECURSIVE BatchMatches(_, _)
BatchMatches(rays, r) ==
    IF r >= Len(rays) THEN << >>
    ELSE TraverseIterator(nodes, boxes, rays[r + 1])
           \o BatchMatches(rays, r + 1)

(***************************************************************************)
(* C20.  batch_query_rays: hits[r] is the number of shapes matching ray r  *)
(* alone, whatever max_res and the other rays; the matches of the rays go  *)
(* into the one buffer ray after ray at an index that runs on, so the      *)
(* buffer holds the first min(sum of hits, max_res) matches in ray order   *)
(* and no slot from max_res on is written; hits slots from rayCount on are *)
(* not written.                                                            *)
(***************************************************************************)
C20_BatchBookkeeping ==
    call.op = "batch_query_rays" =>
        LET rays == call.rays
            all  == BatchMatches(rays, 0)
        IN  /\ \A r \in DOMAIN hits :
                  IF r < Len(rays)
                  THEN hits[r] = Cardinality(BruteForce(rays[r + 1]))
                  ELSE hits[r] = NoHit
            /\ \A j \in DOMAIN res :
                  IF j < Min2(Len(all), call.max_res)
                  THEN res[j] = boxes[all[j + 1]]
                  ELSE res[j] = NoShape

\* two rays with matches, the buffer ending inside the second ray's
C20_Witness ==
    /\ call.op = "batch_query_rays"
    /\ Len(call.rays) = 2
    /\ hits[0] > 0
    /\ hits[0] < call.max_res
    /\ hits[0] + hits[1] > call.max_res
    /\ res[call.max_res - 1] # NoShape
    /\ res[call.max_res] = NoShape

============================================================================
